---- MODULE Spec2Model ----
(***************************************************************************)
(* Model of src/characteristic/mod.rs of hap-rs: the generic              *)
(* Characteristic<T>, its typed get_value / set_value, the erased          *)
(* HapCharacteristic interface over serde_json::Value, and Serialize.      *)
(***************************************************************************)
EXTENDS Integers, Sequences, FiniteSets, TLC

VARIABLES
    T,          \* the type parameter of Characteristic<T> (fixed per behaviour)
    self,       \* the fields of the Characteristic<T> struct
    op,         \* the last operation called on the characteristic and its argument
    ret,        \* what that operation returned
    trace,      \* what that operation did, in order: hook calls, emitted events, the commit
    getCalls,   \* get_value calls made while a read hook and an update hook were attached
    updInGet,   \* update hook invocations made from inside get_value calls
    invoked     \* the hooks that have been called so far, as <<kind of call, hook>>

vars == <<T, self, op, ret, trace, getCalls, updInGet, invoked>>

-----------------------------------------------------------------------------
(* Bounds and input sets *)

MaxCalls == 2
U8Max == 255

None == <<>>
Some(x) == <<x>>

Ok(x) == [ok |-> TRUE, val |-> x]
Err(e) == [ok |-> FALSE, err |-> e]
Unit == "()"

\* the values of T the model draws from
Values(t) ==
    CASE t = "bool" -> BOOLEAN
      [] t = "u8" -> {0, 1, U8Max}
      [] t = "String" -> {"", "on"}

\* T::default()
DefaultValue(t) ==
    CASE t = "bool" -> FALSE
      [] t = "u8" -> 0
      [] t = "String" -> ""

-----------------------------------------------------------------------------
(* serde_json::Value *)

JNull == [k |-> "Null"]
JBool(b) == [k |-> "Bool", b |-> b]
JPosInt(n) == [k |-> "Number", repr |-> "PosInt", n |-> n]
JNegInt(n) == [k |-> "Number", repr |-> "NegInt", n |-> n]
JFloat(n) == [k |-> "Number", repr |-> "Float", n |-> n]
JString(s) == [k |-> "String", s |-> s]
JArray(a) == [k |-> "Array", a |-> a]

is_number(value) == value.k = "Number"

\* json!(&val) for val: T
to_json(t, val) ==
    CASE t = "bool" -> JBool(val)
      [] t = "u8" -> JPosInt(val)
      [] t = "String" -> JString(val)

\* serde_json::from_value::<T>(value)
from_value(t, value) ==
    CASE t = "bool" ->
            IF value.k = "Bool" THEN Ok(value.b) ELSE Err("decode")
      [] t = "u8" ->
            IF value.k = "Number" /\ value.repr = "PosInt" /\ value.n <= U8Max
            THEN Ok(value.n) ELSE Err("decode")
      [] t = "String" ->
            IF value.k = "String" THEN Ok(value.s) ELSE Err("decode")

\* the untyped values a controller may submit
JsonInputs ==
    {JNull, JBool(FALSE), JBool(TRUE), JString("on"), JString(""),
     JPosInt(0), JPosInt(1), JPosInt(2), JPosInt(U8Max), JPosInt(U8Max + 1),
     JNegInt(-1), JFloat(1)}

-----------------------------------------------------------------------------
(* Construction *)

\* (T, format) pairs: the consistent ones, and format's Default with T = bool
TypeFormats ==
    {<<"bool", "bool">>, <<"u8", "uint8">>, <<"String", "string">>,
     <<"bool", "string">>}

\* perms of the value-path model, and of the serialization model
PermsChoices == {<<>>, <<"pr", "pw", "ev">>}
SerPermsChoices == {<<>>, <<"pw", "ev">>, <<"pw", "pr">>}

Ids == {1, 2}
AccessoryIds == {1}
Hooks == {"h1"}
Emitters == {"e1"}

\* the descriptive metadata of a bare characteristic
NoMeta ==
    [description |-> None, unit |-> None, max_len |-> None,
     max_data_len |-> None, valid_values |-> None, valid_values_range |-> None]

\* a characteristic as constructed: the given fields, Default::default() for the rest
Construct(t, format, perms, meta) ==
    [ id |-> 0,
      accessory_id |-> 0,
      hap_type |-> "On",
      format |-> format,
      perms |-> perms,
      description |-> meta.description,
      event_notifications |-> None,
      value |-> DefaultValue(t),
      unit |-> meta.unit,
      max_value |-> None,
      min_value |-> None,
      step_value |-> None,
      max_len |-> meta.max_len,
      max_data_len |-> meta.max_data_len,
      valid_values |-> meta.valid_values,
      valid_values_range |-> meta.valid_values_range,
      readable |-> None,
      updatable |-> None,
      event_emitter |-> None ]

-----------------------------------------------------------------------------
(* Characteristic<T>::set_value, as the steps it takes in order.  A machine  *)
(* m is [self, trace]: the struct and what has been done so far in the call. *)

\* the order of T: bool false < true, u8 by number, String "" before any other
Less(t, a, b) ==
    CASE t = "bool" -> a = FALSE /\ b = TRUE
      [] t = "u8" -> a < b
      [] t = "String" -> a = "" /\ b # ""

\* mutant: the commented-out check, enabled
BoundsCheckEnforced(m, val) ==
    IF m.self.max_value # None /\ Less(T, m.self.max_value[1], val)
    THEN Err("value above max_value")
    ELSE IF m.self.min_value # None /\ Less(T, val, m.self.min_value[1])
    THEN Err("value below min_value")
    ELSE Ok(Unit)

\* the bounds check of set_value, commented out in the source: never rejects
BoundsCheck(m, val) == Ok(Unit)

\* mutant: the update hook is told of changes only
OnUpdateStepIfChanged(m, val) ==
    IF m.self.updatable # None /\ m.self.value # val
    THEN [m EXCEPT !.trace = Append(@, [kind |-> "on_update",
                                        hook |-> m.self.updatable[1],
                                        hap_type |-> m.self.hap_type,
                                        old |-> m.self.value,
                                        new |-> val])]
    ELSE m

\* if let Some(ref mut updatable) = self.updatable { updatable.on_update(..) }
OnUpdateStep(m, val) ==
    IF m.self.updatable # None
    THEN [m EXCEPT !.trace = Append(@, [kind |-> "on_update",
                                        hook |-> m.self.updatable[1],
                                        hap_type |-> m.self.hap_type,
                                        old |-> m.self.value,
                                        new |-> val])]
    ELSE m

\* mutant: the event carries the value still stored
EmitStepOldValue(m, val) ==
    IF m.self.event_notifications = Some(TRUE) /\ m.self.event_emitter # None
    THEN [m EXCEPT !.trace = Append(@, [kind |-> "emit",
                                        emitter |-> m.self.event_emitter[1],
                                        aid |-> m.self.accessory_id,
                                        iid |-> m.self.id,
                                        value |-> to_json(T, m.self.value)])]
    ELSE m

\* mutant: an event is emitted only when the value changes
EmitStepIfChanged(m, val) ==
    IF /\ m.self.event_notifications = Some(TRUE)
       /\ m.self.event_emitter # None
       /\ m.self.value # val
    THEN [m EXCEPT !.trace = Append(@, [kind |-> "emit",
                                        emitter |-> m.self.event_emitter[1],
                                        aid |-> m.self.accessory_id,
                                        iid |-> m.self.id,
                                        value |-> to_json(T, val)])]
    ELSE m

\* mutant: emission also asks for the ev permission
EmitStepEvPerm(m, val) ==
    IF /\ m.self.event_notifications = Some(TRUE)
       /\ m.self.event_emitter # None
       /\ \E i \in 1..Len(m.self.perms) : m.self.perms[i] = "ev"
    THEN [m EXCEPT !.trace = Append(@, [kind |-> "emit",
                                        emitter |-> m.self.event_emitter[1],
                                        aid |-> m.self.accessory_id,
                                        iid |-> m.self.id,
                                        value |-> to_json(T, val)])]
    ELSE m

\* if self.event_notifications == Some(true) { if let Some(..) = self.event_emitter {..} }
EmitStep(m, val) ==
    IF m.self.event_notifications = Some(TRUE) /\ m.self.event_emitter # None
    THEN [m EXCEPT !.trace = Append(@, [kind |-> "emit",
                                        emitter |-> m.self.event_emitter[1],
                                        aid |-> m.self.accessory_id,
                                        iid |-> m.self.id,
                                        value |-> to_json(T, val)])]
    ELSE m

\* mutant: the assignment is lost
CommitStepNoStore(m, val) ==
    [self |-> m.self,
     trace |-> Append(m.trace, [kind |-> "commit", value |-> val])]

\* self.value = val;
CommitStep(m, val) ==
    [self |-> [m.self EXCEPT !.value = val],
     trace |-> Append(m.trace, [kind |-> "commit", value |-> val])]

\* mutant: the event is emitted before the update hook runs
set_value_emit_first(m, val) ==
    LET chk == BoundsCheck(m, val) IN
    IF ~chk.ok
    THEN [m |-> m, ret |-> chk]
    ELSE [m |-> CommitStep(OnUpdateStep(EmitStep(m, val), val), val),
          ret |-> Ok(Unit)]

\* mutant: the value is committed before the hook and the emission
set_value_commit_first(m, val) ==
    LET chk == BoundsCheck(m, val) IN
    IF ~chk.ok
    THEN [m |-> m, ret |-> chk]
    ELSE [m |-> EmitStep(OnUpdateStep(CommitStep(m, val), val), val),
          ret |-> Ok(Unit)]

\* Characteristic::set_value(&mut self, val: T) -> Result<(), Error>
set_value(m, val) ==
    LET chk == BoundsCheck(m, val) IN
    IF ~chk.ok
    THEN [m |-> m, ret |-> chk]
    ELSE [m |-> CommitStep(EmitStep(OnUpdateStep(m, val), val), val),
          ret |-> Ok(Unit)]

\* readable.on_read(self.hap_type), the hook returning r
OnReadStep(m, r) ==
    [m EXCEPT !.trace = Append(@, [kind |-> "on_read",
                                   hook |-> m.self.readable[1],
                                   hap_type |-> m.self.hap_type,
                                   ret |-> r])]

\* mutant: the read hook is called and what it returns is dropped
get_value_skip_set(m, r) ==
    IF m.self.readable # None
    THEN [m |-> OnReadStep(m, r), ret |-> Ok(m.self.value)]
    ELSE [m |-> m, ret |-> Ok(m.self.value)]

\* mutant: without a read hook the stored value is set again
get_value_always_sets(m, r) ==
    LET res == IF m.self.readable # None
               THEN set_value(OnReadStep(m, r), r)
               ELSE set_value(m, m.self.value)
    IN IF ~res.ret.ok
       THEN res
       ELSE [m |-> res.m, ret |-> Ok(res.m.self.value)]

\* Characteristic::get_value(&mut self) -> Result<&T, Error>; r is what the
\* read hook returns when one is attached
get_value(m, r) ==
    IF m.self.readable # None
    THEN LET res == set_value(OnReadStep(m, r), r) IN
         IF ~res.ret.ok
         THEN res
         ELSE [m |-> res.m, ret |-> Ok(res.m.self.value)]
    ELSE [m |-> m, ret |-> Ok(m.self.value)]

\* <Characteristic<T> as HapCharacteristic>::get_value
hap_get_value(m, r) ==
    LET res == get_value(m, r) IN
    IF ~res.ret.ok
    THEN res
    ELSE [m |-> res.m, ret |-> Ok(to_json(T, res.ret.val))]

\* mutant: a value that does not decode resets the characteristic to T::default()
DecodeAndSetResetting(m, value) ==
    LET v == from_value(T, value) IN
    IF ~v.ok
    THEN [m |-> set_value(m, DefaultValue(T)).m, ret |-> v]
    ELSE set_value(m, v.val)

\* serde_json::from_value(value)? followed by self.set_value(v)
DecodeAndSet(m, value) ==
    LET v == from_value(T, value) IN
    IF ~v.ok THEN [m |-> m, ret |-> v] ELSE set_value(m, v.val)

\* mutant: every number but 0 counts as true
CoerceBoolTruthy(m, value) ==
    LET num_v == from_value("u8", value) IN
    IF ~num_v.ok THEN [m |-> m, ret |-> num_v]
    ELSE IF num_v.val = 0 THEN DecodeAndSet(m, JBool(FALSE))
    ELSE DecodeAndSet(m, JBool(TRUE))

\* mutant: a number that is neither 0 nor 1 is stored as true, then refused
CoerceBoolStoreThenFail(m, value) ==
    LET num_v == from_value("u8", value) IN
    IF ~num_v.ok THEN [m |-> m, ret |-> num_v]
    ELSE IF num_v.val = 0 THEN DecodeAndSet(m, JBool(FALSE))
    ELSE IF num_v.val = 1 THEN DecodeAndSet(m, JBool(TRUE))
    ELSE [m |-> DecodeAndSet(m, JBool(TRUE)).m, ret |-> Err("invalid value")]

\* the Bool-format branch of the erased set_value
CoerceBool(m, value) ==
    LET num_v == from_value("u8", value) IN
    IF ~num_v.ok THEN [m |-> m, ret |-> num_v]
    ELSE IF num_v.val = 0 THEN DecodeAndSet(m, JBool(FALSE))
    ELSE IF num_v.val = 1 THEN DecodeAndSet(m, JBool(TRUE))
    ELSE [m |-> m, ret |-> Err("invalid value")]

\* mutant: no coercion of numbers for the Bool format
hap_set_value_no_coercion(m, value) == DecodeAndSet(m, value)

\* mutant: numbers are coerced whatever the format
hap_set_value_coerce_all(m, value) ==
    IF is_number(value)
    THEN CoerceBool(m, value)
    ELSE DecodeAndSet(m, value)

\* <Characteristic<T> as HapCharacteristic>::set_value
hap_set_value(m, value) ==
    IF m.self.format = "bool" /\ is_number(value)
    THEN CoerceBool(m, value)
    ELSE DecodeAndSet(m, value)

-----------------------------------------------------------------------------
(* Serialize for Characteristic<T>: the fields written, in order *)

Field(name, v) == <<name, v>>

JValue(v) == to_json(T, v)
JStrings(seq) == JArray([i \in 1..Len(seq) |-> JString(seq[i])])
JValues(seq) == JArray([i \in 1..Len(seq) |-> JValue(seq[i])])

\* the serde encoding of a field of the given Rust type
Encode(ty, x) ==
    CASE ty = "String" -> JString(x)
      [] ty = "Unit" -> JString(x)
      [] ty = "bool" -> JBool(x)
      [] ty = "u16" -> JPosInt(x)
      [] ty = "u32" -> JPosInt(x)
      [] ty = "T" -> JValue(x)
      [] ty = "Vec<T>" -> JValues(x)
      [] ty = "[T; 2]" -> JValues(x)

\* mutant: an empty optional is written as null
OptFieldNull(name, opt, ty) ==
    IF opt # None THEN <<Field(name, Encode(ty, opt[1]))>>
    ELSE <<Field(name, JNull)>>

\* if let Some(ref x) = self.<field> { state.serialize_field(name, x)?; }
OptField(name, opt, ty) ==
    IF opt # None THEN <<Field(name, Encode(ty, opt[1]))>> ELSE <<>>

\* self.perms.contains(&Perm::PairedRead)
PermsContain(perms, p) == \E i \in 1..Len(perms) : perms[i] = p

HeadFields(s) ==
    << Field("iid", JPosInt(s.id)),
       Field("type", JString(s.hap_type)),
       Field("format", JString(s.format)),
       Field("perms", JStrings(s.perms)) >>

\* mutant: the value is written whatever the perms
ValueFieldAlways(s) == <<Field("value", JValue(s.value))>>

\* if self.perms.contains(&Perm::PairedRead) { serialize_field("value", &self.value) }
ValueField(s) ==
    IF PermsContain(s.perms, "pr")
    THEN <<Field("value", JValue(s.value))>>
    ELSE <<>>

serialize(s) ==
    HeadFields(s)
    \o OptField("description", s.description, "String")
    \o OptField("ev", s.event_notifications, "bool")
    \o ValueField(s)
    \o OptField("unit", s.unit, "Unit")
    \o OptField("maxValue", s.max_value, "T")
    \o OptField("minValue", s.min_value, "T")
    \o OptField("minStep", s.step_value, "T")
    \o OptField("maxLen", s.max_len, "u16")
    \o OptField("maxDataLen", s.max_data_len, "u32")
    \o OptField("valid-values", s.valid_values, "Vec<T>")
    \o OptField("valid-values-range", s.valid_values_range, "[T; 2]")

-----------------------------------------------------------------------------
(* State machine *)

NoOp == [name |-> "new", arg |-> None, after |-> None]
Call(name, arg) == [name |-> name, arg |-> arg, after |-> None]

\* a get_value call, remembering a successful set_value that came right before
SetNames == {"set_value", "hap_set_value"}
CallAfter(name) ==
    [name |-> name, arg |-> None,
     after |-> IF op.name \in SetNames /\ ret.ok
               THEN Some([name |-> op.name, arg |-> op.arg[1]])
               ELSE None]

\* what a metadata mutator leaves behind: the struct s, nothing called
Mutated(name, arg, s) ==
    /\ self' = s
    /\ op' = Call(name, arg)
    /\ ret' = Ok(Unit)
    /\ trace' = <<>>
    /\ UNCHANGED <<T, getCalls, updInGet, invoked>>

\* the hook calls of a trace
HookCalls(tr) ==
    {<<tr[i].kind, tr[i].hook>> : i \in {j \in 1..Len(tr) : tr[j].kind \in {"on_read", "on_update"}}}

\* what a value operation leaves behind: res is [m, ret]
Applied(o, res) ==
    /\ self' = res.m.self
    /\ trace' = res.m.trace
    /\ ret' = res.ret
    /\ op' = o
    /\ invoked' = invoked \cup HookCalls(res.m.trace)
    /\ UNCHANGED T

Machine == [self |-> self, trace |-> <<>>]

Updates(tr) == Cardinality({i \in 1..Len(tr) : tr[i].kind = "on_update"})
Reads(tr) == Cardinality({i \in 1..Len(tr) : tr[i].kind = "on_read"})
Emits(tr) == Cardinality({i \in 1..Len(tr) : tr[i].kind = "emit"})
Commits(tr) == Cardinality({i \in 1..Len(tr) : tr[i].kind = "commit"})

BothHooks(s) == s.readable # None /\ s.updatable # None

\* the bounds the model sets: none, or one that leaves values on both sides
BoundValue(t) ==
    CASE t = "bool" -> TRUE
      [] t = "u8" -> 1
      [] t = "String" -> "on"
OptValues(t) == {None, Some(BoundValue(t))}

UnitChoices == {None, Some("celsius")}
MaxLenChoices == {None, Some(64)}
MaxDataLenChoices == {None, Some(2097152)}
ValidValuesChoices(t) ==
    {None, Some(<<DefaultValue(t), BoundValue(t)>>)}
DescriptionChoices == {None, Some("Power")}

CommonInit(s) ==
    /\ self = s
    /\ op = NoOp
    /\ ret = Ok(Unit)
    /\ trace = <<>>
    /\ getCalls = 0
    /\ updInGet = 0
    /\ invoked = {}

\* a characteristic as the value path meets it, without descriptive metadata
Init ==
    \E tf \in TypeFormats, perms \in PermsChoices :
        /\ T = tf[1]
        /\ CommonInit(Construct(tf[1], tf[2], perms, NoMeta))

\* a characteristic with any combination of its descriptive metadata
SerInit ==
    \E tf \in TypeFormats, perms \in SerPermsChoices,
       description \in DescriptionChoices, unit \in UnitChoices,
       max_len \in MaxLenChoices, max_data_len \in MaxDataLenChoices :
      \E vv \in ValidValuesChoices(tf[1]), vvr \in ValidValuesChoices(tf[1]) :
        /\ T = tf[1]
        /\ CommonInit(Construct(tf[1], tf[2], perms,
               [description |-> description, unit |-> unit,
                max_len |-> max_len, max_data_len |-> max_data_len,
                valid_values |-> vv, valid_values_range |-> vvr]))

\* mutant: the id is assigned once, later calls are ignored
SetIdOnce(id) ==
    Mutated("set_id", Some(id), IF self.id = 0 THEN [self EXCEPT !.id = id] ELSE self)

SetId(id) == Mutated("set_id", Some(id), [self EXCEPT !.id = id])

SetAccessoryId(accessory_id) ==
    Mutated("set_accessory_id", Some(accessory_id),
            [self EXCEPT !.accessory_id = accessory_id])

SetDescription(description) ==
    Mutated("set_description", Some(description),
            [self EXCEPT !.description = description])

\* mutant: switching notifications on emits the stored value at once
SetEventNotificationsNotifying(event_notifications) ==
    LET s == [self EXCEPT !.event_notifications = event_notifications] IN
    /\ self' = s
    /\ op' = Call("set_event_notifications", Some(event_notifications))
    /\ ret' = Ok(Unit)
    /\ trace' = EmitStep([self |-> s, trace |-> <<>>], s.value).trace
    /\ UNCHANGED <<T, getCalls, updInGet, invoked>>

SetEventNotifications(event_notifications) ==
    Mutated("set_event_notifications", Some(event_notifications),
            [self EXCEPT !.event_notifications = event_notifications])

SetMaxValue(val) ==
    Mutated("set_max_value", Some(val), [self EXCEPT !.max_value = val])

SetMinValue(val) ==
    Mutated("set_min_value", Some(val), [self EXCEPT !.min_value = val])

SetStepValue(val) ==
    Mutated("set_step_value", Some(val), [self EXCEPT !.step_value = val])

SetReadable(readable) ==
    Mutated("set_readable", Some(readable),
            [self EXCEPT !.readable = Some(readable)])

\* mutant: a hook already attached is kept
SetUpdatableKeepFirst(updatable) ==
    Mutated("set_updatable", Some(updatable),
            IF self.updatable = None
            THEN [self EXCEPT !.updatable = Some(updatable)]
            ELSE self)

SetUpdatable(updatable) ==
    Mutated("set_updatable", Some(updatable),
            [self EXCEPT !.updatable = Some(updatable)])

SetEventEmitter(event_emitter) ==
    Mutated("set_event_emitter", Some(event_emitter),
            [self EXCEPT !.event_emitter = event_emitter])

SetValue(val) ==
    /\ Applied(Call("set_value", Some(val)), set_value(Machine, val))
    /\ UNCHANGED <<getCalls, updInGet>>

HapSetValue(value) ==
    /\ Applied(Call("hap_set_value", Some(value)), hap_set_value(Machine, value))
    /\ UNCHANGED <<getCalls, updInGet>>

\* the counters follow a get_value call; r is what the read hook returns
Counted(r) ==
    /\ BothHooks(self) => getCalls < MaxCalls
    /\ getCalls' = IF BothHooks(self) THEN getCalls + 1 ELSE getCalls
    /\ updInGet' = updInGet + Updates(trace')

GetValue(r) ==
    /\ Applied(CallAfter("get_value"), get_value(Machine, r))
    /\ Counted(r)

HapGetValue(r) ==
    /\ Applied(CallAfter("hap_get_value"), hap_get_value(Machine, r))
    /\ Counted(r)

Serialize ==
    /\ op' = Call("serialize", None)
    /\ ret' = Ok(serialize(self))
    /\ trace' = <<>>
    /\ UNCHANGED <<T, self, getCalls, updInGet, invoked>>

\* on_read is only called when a read hook is attached
ReadResults == IF self.readable # None THEN Values(T) ELSE {DefaultValue(T)}

Next ==
    \/ \E id \in Ids : SetId(id)
    \/ \E id \in AccessoryIds : SetAccessoryId(id)
    \/ \E e \in {None, Some(TRUE), Some(FALSE)} : SetEventNotifications(e)
    \/ \E h \in Hooks : SetReadable(h)
    \/ \E h \in Hooks : SetUpdatable(h)
    \/ \E e \in {None} \cup {Some(x) : x \in Emitters} : SetEventEmitter(e)
    \/ \E val \in Values(T) : SetValue(val)
    \/ \E value \in JsonInputs : HapSetValue(value)
    \/ \E r \in ReadResults : GetValue(r)
    \/ \E r \in ReadResults : HapGetValue(r)

Spec == Init /\ [][Next]_vars

SerNext ==
    \/ \E d \in DescriptionChoices : SetDescription(d)
    \/ \E e \in {None, Some(TRUE), Some(FALSE)} : SetEventNotifications(e)
    \/ \E val \in OptValues(T) : SetMaxValue(val)
    \/ \E val \in OptValues(T) : SetMinValue(val)
    \/ \E val \in OptValues(T) : SetStepValue(val)
    \/ \E val \in Values(T) : SetValue(val)
    \/ Serialize

SerSpec == SerInit /\ [][SerNext]_vars

\* the setters that overwrite a slot, with two hooks and two ids to choose from
Hooks2 == {"h1", "h2"}

ReplaceInit ==
    /\ T = "bool"
    /\ CommonInit(Construct("bool", "bool", <<"pr", "pw", "ev">>, NoMeta))

ReplaceNext ==
    \/ \E id \in Ids : SetId(id)
    \/ \E id \in Ids : SetAccessoryId(id)
    \/ \E h \in Hooks2 : SetReadable(h)
    \/ \E h \in Hooks2 : SetUpdatable(h)
    \/ \E val \in Values(T) : SetValue(val)
    \/ \E r \in ReadResults : GetValue(r)

ReplaceSpec == ReplaceInit /\ [][ReplaceNext]_vars

\* every metadata mutator, on characteristics of each type whose value is set
MetaInit ==
    \E tf \in TypeFormats :
        /\ T = tf[1]
        /\ CommonInit(Construct(tf[1], tf[2], <<"pr", "pw", "ev">>, NoMeta))

MetaNext ==
    \/ \E id \in Ids : SetId(id)
    \/ \E id \in AccessoryIds : SetAccessoryId(id)
    \/ \E d \in DescriptionChoices : SetDescription(d)
    \/ \E e \in {None, Some(TRUE), Some(FALSE)} : SetEventNotifications(e)
    \/ \E val \in OptValues(T) : SetMaxValue(val)
    \/ \E val \in OptValues(T) : SetMinValue(val)
    \/ \E val \in OptValues(T) : SetStepValue(val)
    \/ \E h \in Hooks : SetReadable(h)
    \/ \E h \in Hooks : SetUpdatable(h)
    \/ \E e \in {None} \cup {Some(x) : x \in Emitters} : SetEventEmitter(e)
    \/ \E val \in Values(T) : SetValue(val)

MetaSpec == MetaInit /\ [][MetaNext]_vars

-----------------------------------------------------------------------------
(* Properties *)

IsGet == op.name \in {"get_value", "hap_get_value"}

\* the typed value a set_value call carried: its argument, or what the
\* argument of the erased call encodes
Carried(call) ==
    IF call.name = "set_value"
    THEN {call.arg}
    ELSE {v \in Values(T) : call.arg = to_json(T, v)}

\* C1: with no read hook attached, a get_value that comes right after a
\* successful set_value(v) returns v: the typed get_value returns v itself, the
\* erased one the JSON encoding of v, whichever of the two interfaces set it.
C1_RoundTrip ==
    (IsGet /\ op.after # None /\ self.readable = None) =>
        \A v \in Carried(op.after[1]) :
            ret = IF op.name = "get_value" THEN Ok(v) ELSE Ok(to_json(T, v))

\* an erased set of a non-default u8 read back on the erased interface, with an
\* update hook, notifications and an emitter in place
C1_Witness ==
    /\ op.name = "hap_get_value"
    /\ op.after = Some([name |-> "hap_set_value", arg |-> JPosInt(U8Max)])
    /\ self.readable = None
    /\ self.updatable # None
    /\ self.event_notifications = Some(TRUE)
    /\ self.event_emitter # None
    /\ ret = Ok(JPosInt(U8Max))

\* C2: on a Bool-format characteristic the erased set_value of the number 0
\* succeeds and leaves false stored, and of the number 1 succeeds and leaves
\* true stored.
C2_BoolCoercion ==
    (/\ op.name = "hap_set_value"
     /\ self.format = "bool"
     /\ op.arg[1] \in {JPosInt(0), JPosInt(1)}) =>
        /\ ret = Ok(Unit)
        /\ self.value = (op.arg[1] = JPosInt(1))

\* the number 0 submitted while true was stored (the update hook saw true)
C2_Witness ==
    /\ op.name = "hap_set_value"
    /\ self.format = "bool"
    /\ op.arg = Some(JPosInt(0))
    /\ self.value = FALSE
    /\ \E i \in 1..Len(trace) : trace[i].kind = "on_update" /\ trace[i].old = TRUE

\* a number other than 0 and 1 submitted to a Bool-format characteristic
OtherNumber(value) ==
    /\ is_number(value)
    /\ value \notin {JPosInt(0), JPosInt(1)}

\* C3 as stated: every number other than 0 and 1 gets the "invalid value"
\* error; nothing is committed.
C3_Original ==
    (/\ op.name = "hap_set_value"
     /\ self.format = "bool"
     /\ OtherNumber(op.arg[1])) =>
        /\ ret = Err("invalid value")
        /\ trace = <<>>

\* C3 amended: every number other than 0 and 1 is refused and the characteristic
\* is left as it was; the error is "invalid value" for the integers 2..255 and
\* the decode error of the u8 conversion for every other number.
C3_Amended ==
    [][ (/\ op'.name = "hap_set_value"
         /\ self.format = "bool"
         /\ OtherNumber(op'.arg[1])) =>
            /\ self' = self
            /\ trace' = <<>>
            /\ LET value == op'.arg[1] IN
               ret' = IF value.repr = "PosInt" /\ value.n \in 2..255
                      THEN Err("invalid value")
                      ELSE Err("decode") ]_vars

\* 256 refused by the u8 conversion while true was stored
C3_Witness ==
    /\ op.name = "hap_set_value"
    /\ self.format = "bool"
    /\ op.arg = Some(JPosInt(256))
    /\ ret = Err("decode")
    /\ self.value = TRUE

\* the places of a kind of step in a trace
Places(tr, kind) == {i \in 1..Len(tr) : tr[i].kind = kind}

\* a set_value call that reached the typed set_value
IsSet(o, r) ==
    \/ o.name = "set_value"
    \/ o.name = "hap_set_value" /\ r.ok

\* the typed value such a call asked to store
Asked(tr) == tr[Len(tr)].value

\* C4: with an update hook attached and v1 stored, one set_value(v2) calls the
\* hook exactly once, with (old = v1, new = v2); the hook runs while v1 is still
\* stored: the one commit of the call comes after it, and stores v2.
C4_HookOrdering ==
    [][ (op'.name = "set_value" /\ self.updatable # None) =>
            /\ Cardinality(Places(trace', "on_update")) = 1
            /\ Cardinality(Places(trace', "commit")) = 1
            /\ \A i \in Places(trace', "on_update") :
                   /\ trace'[i].hook = self.updatable[1]
                   /\ trace'[i].old = self.value
                   /\ trace'[i].new = op'.arg[1]
                   /\ \A j \in Places(trace', "commit") : i < j
            /\ self'.value = op'.arg[1] ]_vars

\* set_value(v2) over a different v1, the hook told (v1, v2) before the commit
C4_Witness ==
    /\ op.name = "set_value"
    /\ self.updatable # None
    /\ Len(trace) = 2
    /\ trace[1].kind = "on_update"
    /\ trace[1].old # trace[1].new
    /\ trace[2].kind = "commit"
    /\ self.value = trace[1].new

\* C5: a successful set_value emits one CharacteristicValueChanged event when,
\* at the time of the call, event_notifications is Some(true) and an emitter is
\* attached, and none otherwise; it succeeds and stores the value either way,
\* whatever the perms.
C5_EventGating ==
    [][ IsSet(op', ret') =>
            /\ Cardinality(Places(trace', "emit")) =
                   IF /\ self.event_notifications = Some(TRUE)
                      /\ self.event_emitter # None
                   THEN 1 ELSE 0
            /\ ret' = Ok(Unit)
            /\ self'.value = Asked(trace') ]_vars

\* an event emitted by a characteristic that has no ev permission
C5_Witness ==
    /\ op.name = "set_value"
    /\ self.perms = <<>>
    /\ Places(trace, "emit") # {}
    /\ self.value = op.arg[1]

\* a set_value with notifications explicitly off and an emitter: no event
C5_WitnessOff ==
    /\ op.name = "set_value"
    /\ self.event_notifications = Some(FALSE)
    /\ self.event_emitter # None
    /\ Places(trace, "emit") = {}

\* C6: with a read hook and an update hook attached, each get_value calls the
\* read hook once and then the update hook once, so the update hook has been
\* called from get_value as many times as get_value was called with both hooks.
C6_ReadTriggersWrite ==
    /\ updInGet = getCalls
    /\ (IsGet /\ BothHooks(self)) =>
           /\ Len(trace) >= 2
           /\ Places(trace, "on_read") = {1}
           /\ Places(trace, "on_update") = {2}
           /\ trace[2].new = trace[1].ret

\* the second get_value, the read hook supplying the value already stored
C6_Witness ==
    /\ IsGet
    /\ BothHooks(self)
    /\ getCalls >= 2
    /\ updInGet = getCalls
    /\ trace[2].kind = "on_update"
    /\ trace[2].old = trace[2].new

\* C7: an erased set_value that returns an error leaves the stored value and
\* every other field of the characteristic as they were.
C7_NoPartialMutation ==
    [][ (op'.name = "hap_set_value" /\ ~ret'.ok) => self' = self ]_vars

\* a decode failure on a characteristic holding a non-default value
C7_Witness ==
    /\ op.name = "hap_set_value"
    /\ ret = Err("decode")
    /\ self.value # DefaultValue(T)
    /\ self.updatable # None

\* the names of the fields of a serialized form, and the value under a name
FieldNames(out) == {out[i][1] : i \in 1..Len(out)}
FieldValues(out, name) == {out[i][2] : i \in {j \in 1..Len(out) : out[j][1] = name}}

\* C8: the serialized form holds a value field exactly when perms contains
\* PairedRead ("pr"), and then it is the stored value, once.
C8_ValueIffPairedRead ==
    op.name = "serialize" =>
        LET out == ret.val
            pr == "pr" \in {self.perms[i] : i \in 1..Len(self.perms)}
        IN /\ ("value" \in FieldNames(out)) <=> pr
           /\ pr => /\ FieldValues(out, "value") = {to_json(T, self.value)}
                    /\ Cardinality({i \in 1..Len(out) : out[i][1] = "value"}) = 1

\* serialized with PairedRead after a set_value stored a non-default value
C8_Witness ==
    /\ op.name = "serialize"
    /\ self.perms = <<"pw", "pr">>
    /\ self.value # DefaultValue(T)
    /\ <<"value", to_json(T, self.value)>> \in {ret.val[i] : i \in 1..Len(ret.val)}

\* serialized without PairedRead: no value field
C8_WitnessHidden ==
    /\ op.name = "serialize"
    /\ self.perms = <<"pw", "ev">>
    /\ self.value # DefaultValue(T)
    /\ "value" \notin FieldNames(ret.val)

\* each optional field's name on the wire, with the struct field backing it
Backing(s) ==
    { <<"description", s.description>>,
      <<"ev", s.event_notifications>>,
      <<"unit", s.unit>>,
      <<"maxValue", s.max_value>>,
      <<"minValue", s.min_value>>,
      <<"minStep", s.step_value>>,
      <<"maxLen", s.max_len>>,
      <<"maxDataLen", s.max_data_len>>,
      <<"valid-values", s.valid_values>>,
      <<"valid-values-range", s.valid_values_range>> }

\* C9: the serialized form holds each optional field exactly when its backing
\* optional is present, holds no null, and always holds iid, type, format and
\* perms.
C9_SerializationOmission ==
    op.name = "serialize" =>
        LET out == ret.val IN
        /\ \A b \in Backing(self) : (b[1] \in FieldNames(out)) <=> (b[2] # None)
        /\ \A i \in 1..Len(out) : out[i][2] # JNull
        /\ {"iid", "type", "format", "perms"} \subseteq FieldNames(out)

\* a form with a unit and a maxValue and without maxLen and minValue
C9_Witness ==
    /\ op.name = "serialize"
    /\ self.unit = Some("celsius")
    /\ self.max_value # None
    /\ self.max_len = None
    /\ self.min_value = None
    /\ {"unit", "maxValue"} \subseteq FieldNames(ret.val)
    /\ FieldNames(ret.val) \cap {"maxLen", "minValue"} = {}

\* C10: the typed set_value(v) returns Ok and leaves v stored, whatever
\* min_value, max_value, step_value, valid_values and valid_values_range are.
C10_SetValueNeverFails ==
    op.name = "set_value" =>
        /\ ret = Ok(Unit)
        /\ self.value = op.arg[1]

\* U8Max stored above a max_value of 1, outside the valid values and their range
C10_Witness ==
    /\ op.name = "set_value"
    /\ T = "u8"
    /\ self.max_value = Some(1)
    /\ self.valid_values # None
    /\ self.valid_values_range # None
    /\ op.arg = Some(U8Max)
    /\ self.value = U8Max
    /\ ret.ok

\* the default stored below a min_value
C10_WitnessBelow ==
    /\ op.name = "set_value"
    /\ self.min_value # None
    /\ Less(T, self.value, self.min_value[1])
    /\ ret.ok

\* C11: every event emitted in a call carries the accessory_id and the id the
\* characteristic holds when the call is made, and the encoding of the value the
\* call stores: for the typed set_value its argument.
C11_EventContent ==
    [][ \A i \in Places(trace', "emit") :
            /\ trace'[i].aid = self.accessory_id
            /\ trace'[i].iid = self.id
            /\ trace'[i].value = to_json(T, self'.value)
            /\ op'.name = "set_value" => trace'[i].value = to_json(T, op'.arg[1]) ]_vars

\* an event stamped with ids given by set_accessory_id and set_id, carrying a
\* new value that differs from the old one the update hook saw
C11_Witness ==
    /\ op.name = "set_value"
    /\ Len(trace) = 3
    /\ trace[1].kind = "on_update"
    /\ trace[1].old # trace[1].new
    /\ trace[2].kind = "emit"
    /\ trace[2].aid = 1
    /\ trace[2].iid = 2
    /\ trace[2].value = to_json(T, trace[1].new)

\* C12: in a set_value that emits an event the update hook, when attached, has
\* run before the emission, and the commit comes after the emission.
C12_StepOrder ==
    [][ (IsSet(op', ret') /\ Places(trace', "emit") # {}) =>
            /\ self.updatable # None => Places(trace', "on_update") # {}
            /\ \A e \in Places(trace', "emit") :
                   /\ \A u \in Places(trace', "on_update") : u < e
                   /\ \A c \in Places(trace', "commit") : e < c
            /\ Places(trace', "commit") # {} ]_vars

\* an erased set_value that ran hook, emission and commit in this order
C12_Witness ==
    /\ op.name = "hap_set_value"
    /\ Len(trace) = 3
    /\ trace[1].kind = "on_update"
    /\ trace[2].kind = "emit"
    /\ trace[3].kind = "commit"
    /\ trace[1].old # trace[3].value

\* C13: with a read hook attached, get_value returns the value the hook
\* supplied on that call and leaves it stored; the update hook called on that
\* read is given (old = the value stored before, new = the hook's value).
C13_ReadHookValue ==
    [][ (op'.name \in {"get_value", "hap_get_value"} /\ self.readable # None) =>
            /\ Len(trace') >= 1
            /\ trace'[1].kind = "on_read"
            /\ trace'[1].hook = self.readable[1]
            /\ ret' = IF op'.name = "get_value"
                      THEN Ok(trace'[1].ret)
                      ELSE Ok(to_json(T, trace'[1].ret))
            /\ self'.value = trace'[1].ret
            /\ \A u \in Places(trace', "on_update") :
                   /\ trace'[u].old = self.value
                   /\ trace'[u].new = trace'[1].ret ]_vars

\* a get_value whose read hook supplied a value other than the stored one
C13_Witness ==
    /\ op.name = "get_value"
    /\ self.readable # None
    /\ Len(trace) >= 2
    /\ trace[1].kind = "on_read"
    /\ trace[2].kind = "on_update"
    /\ trace[2].old # trace[1].ret
    /\ ret = Ok(trace[1].ret)
    /\ self.value = trace[1].ret

\* C14: with no read hook attached, get_value returns the stored value, calls
\* no hook, emits no event and leaves every field as it was.
C14_PureRead ==
    [][ (op'.name \in {"get_value", "hap_get_value"} /\ self.readable = None) =>
            /\ self' = self
            /\ trace' = <<>>
            /\ invoked' = invoked
            /\ ret' = IF op'.name = "get_value"
                      THEN Ok(self.value)
                      ELSE Ok(to_json(T, self.value)) ]_vars

\* a get_value with an update hook, notifications on and an emitter, and
\* nothing called
C14_Witness ==
    /\ op.name = "get_value"
    /\ self.readable = None
    /\ self.updatable # None
    /\ self.event_notifications = Some(TRUE)
    /\ self.event_emitter # None
    /\ self.value # DefaultValue(T)
    /\ trace = <<>>
    /\ ret = Ok(self.value)

\* C15: each hook slot holds one hook and attaching replaces: set_updatable(h)
\* leaves h in the slot whatever was there, no other operation changes the
\* slot, and a call invokes at most one update hook, the one in the slot; the
\* same for set_readable and the read hook.
C15_HookReplacement ==
    [][ /\ op'.name = "set_updatable" => self'.updatable = Some(op'.arg[1])
        /\ op'.name # "set_updatable" => self'.updatable = self.updatable
        /\ op'.name = "set_readable" => self'.readable = Some(op'.arg[1])
        /\ op'.name # "set_readable" => self'.readable = self.readable
        /\ \A i \in Places(trace', "on_update") : self.updatable = Some(trace'[i].hook)
        /\ \A i \in Places(trace', "on_read") : self.readable = Some(trace'[i].hook)
        /\ Cardinality(Places(trace', "on_update")) <= 1
        /\ Cardinality(Places(trace', "on_read")) <= 1 ]_vars

\* h1 was called as update hook and as read hook earlier; now h2 is in both
\* slots and a get_value calls h2 alone
C15_Witness ==
    /\ op.name = "get_value"
    /\ {<<"on_update", "h1">>, <<"on_read", "h1">>} \subseteq invoked
    /\ self.updatable = Some("h2")
    /\ self.readable = Some("h2")
    /\ HookCalls(trace) = {<<"on_read", "h2">>, <<"on_update", "h2">>}

\* the field a mutator writes, and the struct after the call o on s
MutatorNames ==
    {"set_id", "set_accessory_id", "set_description", "set_event_notifications",
     "set_max_value", "set_min_value", "set_step_value", "set_readable",
     "set_updatable", "set_event_emitter"}

Written(s, o) ==
    LET x == o.arg[1] IN
    CASE o.name = "set_id" -> [s EXCEPT !.id = x]
      [] o.name = "set_accessory_id" -> [s EXCEPT !.accessory_id = x]
      [] o.name = "set_description" -> [s EXCEPT !.description = x]
      [] o.name = "set_event_notifications" -> [s EXCEPT !.event_notifications = x]
      [] o.name = "set_max_value" -> [s EXCEPT !.max_value = x]
      [] o.name = "set_min_value" -> [s EXCEPT !.min_value = x]
      [] o.name = "set_step_value" -> [s EXCEPT !.step_value = x]
      [] o.name = "set_readable" -> [s EXCEPT !.readable = Some(x)]
      [] o.name = "set_updatable" -> [s EXCEPT !.updatable = Some(x)]
      [] o.name = "set_event_emitter" -> [s EXCEPT !.event_emitter = x]

\* C16: a metadata mutator writes its own field and nothing else: the stored
\* value and the other fields stay, no hook is called and no event is emitted.
C16_MutatorFrame ==
    [][ op'.name \in MutatorNames =>
            /\ self' = Written(self, op')
            /\ self'.value = self.value
            /\ trace' = <<>>
            /\ invoked' = invoked ]_vars

\* notifications switched on with hooks and an emitter attached and a
\* non-default value stored: nothing called, nothing emitted
C16_Witness ==
    /\ op.name = "set_event_notifications"
    /\ op.arg = Some(Some(TRUE))
    /\ self.event_notifications = Some(TRUE)
    /\ self.event_emitter # None
    /\ self.updatable # None
    /\ self.readable # None
    /\ self.value # DefaultValue(T)
    /\ trace = <<>>

\* C17 as stated: once id or accessory_id has been assigned, no operation
\* changes it.
C17_Original ==
    [][ /\ self.id # 0 => self'.id = self.id
        /\ self.accessory_id # 0 => self'.accessory_id = self.accessory_id ]_vars

\* C17 amended: id and accessory_id change through set_id and set_accessory_id
\* alone, and each of these calls overwrites: it leaves its argument in the
\* field, whether or not the field was assigned before.
C17_Amended ==
    [][ /\ op'.name = "set_id" => self'.id = op'.arg[1]
        /\ op'.name # "set_id" => self'.id = self.id
        /\ op'.name = "set_accessory_id" => self'.accessory_id = op'.arg[1]
        /\ op'.name # "set_accessory_id" => self'.accessory_id = self.accessory_id ]_vars

\* both ids assigned, and kept by a get_value that went through both hooks
C17_Witness ==
    /\ op.name = "get_value"
    /\ self.id = 2
    /\ self.accessory_id = 2
    /\ Len(trace) = 3

\* the value of type t an untyped value may encode: what it holds, when of t
Payload(t, value) ==
    CASE t = "bool" /\ value.k = "Bool" -> {value.b}
      [] t = "u8" /\ value.k = "Number" -> {value.n} \cap (0..U8Max)
      [] t = "String" /\ value.k = "String" -> {value.s}
      [] OTHER -> {}

\* the typed values an untyped value encodes
Decoded(value) == {v \in Payload(T, value) : value = to_json(T, v)}

C19_FailedSetNoEffect ==
    [][ (op'.name = "hap_set_value" /\ ~ret'.ok) =>
            /\ trace' = <<>>
            /\ invoked' = invoked ]_vars

\* "invalid value" with an update hook, notifications on and an emitter
C19_Witness ==
    /\ op.name = "hap_set_value"
    /\ ret = Err("invalid value")
    /\ self.updatable # None
    /\ self.event_notifications = Some(TRUE)
    /\ self.event_emitter # None
    /\ trace = <<>>

\* C20: in every call the events emitted are, in order, the encodings of the
\* values the call commits when event_notifications is Some(true) and an
\* emitter is attached, one event right before each commit, and none
\* otherwise; a commit of the value already stored has its event too.
C20_EventsMirrorCommits ==
    [][ LET ems == Places(trace', "emit")
            cms == Places(trace', "commit")
        IN IF self.event_notifications = Some(TRUE) /\ self.event_emitter # None
           THEN /\ Cardinality(ems) = Cardinality(cms)
                /\ \A c \in cms :
                       /\ c - 1 \in ems
                       /\ trace'[c - 1].value = to_json(T, trace'[c].value)
                       /\ self'.value = trace'[c].value
           ELSE ems = {} ]_vars

\* a get_value whose read hook supplied the value already stored: the update
\* hook saw old = new, and the event was emitted all the same
C20_Witness ==
    /\ op.name = "get_value"
    /\ Len(trace) = 4
    /\ trace[2].kind = "on_update"
    /\ trace[2].old = trace[2].new
    /\ trace[3].kind = "emit"
    /\ trace[3].value = to_json(T, self.value)
    /\ trace[4].kind = "commit"

====
